---- MODULE Spec2Model ----
(***************************************************************************)
(* file-deleter (src/index.ts, first draft, lines 1-300).                  *)
(*                                                                         *)
(* fileDeleter validates its arguments, then for every wildcard token      *)
(* starts one asynchronous walk of the tree beneath startingPath and       *)
(* finally invokes the completion callback.  A walk lists a directory with *)
(* a child `ls` process; the callback of that process stats every entry,   *)
(* issues fs.unlink for the regular files the wildcard's predicate accepts *)
(* and starts a listing of every subdirectory.                             *)
(*                                                                         *)
(* Strings are sequences of one-character strings, so that includes,       *)
(* endsWith, slice and split are computed as JavaScript computes them.     *)
(***************************************************************************)
EXTENDS Integers, Sequences, FiniteSets, TLC

\* ------------------------------------------------------------------------
\* Bounds of the model
\* ------------------------------------------------------------------------

\* longest unbracketed text of the tokens whose call alone is made
MaxTokenLen == 8

\* longest unbracketed text of the enumerated tokens whose walk is run
MaxWalkTokenLen == 5

\* number of successive calls of fileDeleter
MaxRuns == 2

\* ------------------------------------------------------------------------
\* JavaScript string primitives
\* ------------------------------------------------------------------------

\* String.prototype.slice(from) / substring(from), 0-based, from >= 0
SliceFrom(s, from) == SubSeq(s, from + 1, Len(s))

\* String.prototype.slice(0, -n)
DropLast(s, n) == SubSeq(s, 1, Len(s) - n)

\* String.prototype.slice(1, -1)
Slice1(s) == SubSeq(s, 2, Len(s) - 1)

\* String.prototype.endsWith
EndsWith(s, suffix) ==
    /\ Len(suffix) <= Len(s)
    /\ SubSeq(s, Len(s) - Len(suffix) + 1, Len(s)) = suffix

\* String.prototype.includes
Includes(s, sub) ==
    \E i \in 0..(Len(s) - Len(sub)) : SubSeq(s, i + 1, i + Len(sub)) = sub

\* (s.match(/c/g) || []).length
CountChar(s, c) == Cardinality({i \in 1..Len(s) : s[i] = c})

\* String.prototype.split(c) for a one-character separator
RECURSIVE Split(_, _)
Split(s, c) ==
    IF \A i \in 1..Len(s) : s[i] # c
    THEN <<s>>
    ELSE LET k == CHOOSE i \in 1..Len(s) :
                     s[i] = c /\ \A j \in 1..(i - 1) : s[j] # c
         IN  <<SubSeq(s, 1, k - 1)>> \o Split(SubSeq(s, k + 1, Len(s)), c)

\* the value of an absent array element or of a function that returns nothing
Undefined == <<"undefined">>

\* array[i], 0-based, Undefined past the end
At(arr, i) == IF i + 1 <= Len(arr) THEN arr[i + 1] ELSE Undefined

\* String.prototype.charAt, the empty string past the end
CharAt(s, i) == IF i + 1 <= Len(s) THEN s[i + 1] ELSE ""

\* whether a string or undefined counts as true in a condition
Truthy(v) == v # Undefined /\ v # <<>>

\* ------------------------------------------------------------------------
\* Paths and the directory tree
\* ------------------------------------------------------------------------

\* `${targetPath}/${path}` (managePath, line 106)
Join(targetPath, path) == targetPath \o <<"/">> \o path

\* the startingPath of every run
Root == <<"t">>

Dir1 == Join(Root, <<"d", ".", "j">>)
Dir2 == Join(Dir1, <<"e">>)

\* every directory entry a tree may hold: its directory, its name, its type
Universe ==
    { [dir |-> Root, name |-> <<"a", ".", "j">>, isFile |-> TRUE],
      [dir |-> Root, name |-> <<"a", "j">>,      isFile |-> TRUE],
      [dir |-> Root, name |-> <<"b">>,           isFile |-> TRUE],
      [dir |-> Root, name |-> <<"d", ".", "j">>, isFile |-> FALSE],
      [dir |-> Dir1, name |-> <<"b">>,           isFile |-> TRUE],
      [dir |-> Dir1, name |-> <<"b", "a", ".", "j">>, isFile |-> TRUE],
      [dir |-> Dir1, name |-> <<"e">>,           isFile |-> FALSE],
      [dir |-> Dir2, name |-> <<"a", ".", "j">>, isFile |-> TRUE] }

PathOf(n) == Join(n.dir, n.name)

\* the order in which `ls` prints names (byte order)
NameOrder ==
    << <<"a", ".", "j">>, <<"a", "j">>, <<"b">>, <<"b", "a", ".", "j">>,
       <<"d", ".", "j">>, <<"e">> >>

\* the trees: every subset of Universe closed under parent directories
Trees ==
    { T \in SUBSET Universe :
        \A n \in T : n.dir # Root =>
            \E m \in T : ~m.isFile /\ PathOf(m) = n.dir }

FilesOf(T) == {PathOf(n) : n \in {m \in T : m.isFile}}
DirsOf(T)  == {Root} \cup {PathOf(n) : n \in {m \in T : ~m.isFile}}

\* ------------------------------------------------------------------------
\* The wildcard grammar (lines 130-248)
\* ------------------------------------------------------------------------

\* the DeleteFile functions a walk can run
CertainWord                     == "deleteFileWithCertainWord"
CertainExtension                == "deleteFileWithCertainExtension"
CertainExtensionAndWord         == "deleteFileWithCertainExtensionAndWord"
MultipleWords                   == "deleteFileWithMultipleWords"
CertainExtensionAndMultipleWords == "deleteFileWithCertainExtensionAndMultipleWords"

\* sanitizeWildCard stripping one asterisk a side instead of two
sanitizeWildCardOnce(wildCard, type, extension) ==
    IF type = "deleteFileWithCertainWord"
    THEN Slice1(wildCard)
    ELSE IF type = "deleteFileWithCertainExtensionAndWord"
    THEN DropLast(At(Split(SliceFrom(wildCard, 1), "."), 0), 1) \o <<".">> \o extension
    ELSE Undefined

\* sanitizeWildCard (lines 183-202); the two TODO branches return nothing
sanitizeWildCard(wildCard, type, extension) ==
    IF type = CertainWord
    THEN Slice1(Slice1(wildCard))
    ELSE IF type = CertainExtensionAndWord
    THEN DropLast(DropLast(At(Split(SliceFrom(SliceFrom(wildCard, 1), 1), "."), 0), 1), 1)
             \o <<".">> \o extension
    ELSE Undefined

\* the predicate deleteFileWithCertainWord hands to managePath (lines 139-140)
requirementsCertainWord(absolutePathFromTargetDirectory, wildCard) ==
    Includes(absolutePathFromTargetDirectory, wildCard)

\* deleteFileWithCertainExtension testing includes instead of endsWith
requirementsCertainExtensionIncludes(absolutePathFromTargetDirectory, wildCard) ==
    Includes(absolutePathFromTargetDirectory, wildCard)

\* the predicate of deleteFileWithCertainExtension (lines 152-153)
requirementsCertainExtension(absolutePathFromTargetDirectory, wildCard) ==
    EndsWith(absolutePathFromTargetDirectory, wildCard)

\* the predicate of deleteFileWithCertainExtensionAndWord (lines 165-167)
requirementsCertainExtensionAndWord(absolutePathFromTargetDirectory, wildCard) ==
    /\ EndsWith(absolutePathFromTargetDirectory, At(Split(wildCard, "."), 1))
    /\ Includes(absolutePathFromTargetDirectory, At(Split(wildCard, "."), 0))

\* the predicate a walk running fn applies to a regular file
requirements(fn, absolutePathFromTargetDirectory, wildCard) ==
    IF fn = CertainWord
    THEN requirementsCertainWord(absolutePathFromTargetDirectory, wildCard)
    ELSE IF fn = CertainExtension
    THEN requirementsCertainExtension(absolutePathFromTargetDirectory, wildCard)
    ELSE requirementsCertainExtensionAndWord(absolutePathFromTargetDirectory, wildCard)

\* the function a walk running fn calls on a subdirectory
\* (lines 141-142, 154-155, 168-169)
caller(fn) ==
    IF fn = CertainWord THEN CertainWord ELSE CertainExtension

\* whether calling fn lists its target directory; the bodies of the two
\* multiple-word functions are empty (lines 173-181)
StartsWalk(fn) == fn \in {CertainWord, CertainExtension, CertainExtensionAndWord}

NoCall == "none"

\* filterIncludedFilePaths without the test of the asterisk count's parity
filterIncludedFilePathsNoParity(wildcard) ==
    LET asterixCount == CountChar(wildcard, "*")
        extension    == At(Split(wildcard, "."), 1)
        dot          == Includes(wildcard, <<".">>)
        Throw        == [threw |-> TRUE,  fn |-> NoCall, wildCard |-> Undefined]
        Call(f, w)   == [threw |-> FALSE, fn |-> f, wildCard |-> w]
    IN  IF Includes(wildcard, <<"*">>)
        THEN IF asterixCount = 4 /\ ~dot
             THEN Call(CertainWord, sanitizeWildCard(wildcard, CertainWord, Undefined))
             ELSE IF asterixCount = 4 /\ dot
             THEN Call(CertainExtensionAndWord,
                       sanitizeWildCard(wildcard, CertainExtensionAndWord, extension))
             ELSE IF asterixCount > 4 /\ ~dot
             THEN Call(MultipleWords, sanitizeWildCard(wildcard, MultipleWords, Undefined))
             ELSE IF asterixCount > 4 /\ dot
             THEN Call(CertainExtensionAndMultipleWords,
                       sanitizeWildCard(wildcard, CertainExtensionAndMultipleWords, Undefined))
             ELSE Throw
        ELSE IF CharAt(wildcard, 0) = "."
        THEN Call(CertainExtension, wildcard)
        ELSE Call(NoCall, Undefined)

\* filterIncludedFilePaths (lines 204-248) on the unbracketed token: whether
\* it throws wildCardError, else the function it calls and with which wildcard
filterIncludedFilePaths(wildcard) ==
    LET asterixCount == CountChar(wildcard, "*")
        extension    == At(Split(wildcard, "."), 1)
        dot          == Includes(wildcard, <<".">>)
        Throw        == [threw |-> TRUE,  fn |-> NoCall, wildCard |-> Undefined]
        Call(f, w)   == [threw |-> FALSE, fn |-> f, wildCard |-> w]
    IN  IF Includes(wildcard, <<"*">>)
        THEN IF asterixCount % 2 # 0 THEN Throw
             ELSE IF asterixCount = 4 /\ ~dot
             THEN Call(CertainWord, sanitizeWildCard(wildcard, CertainWord, Undefined))
             ELSE IF asterixCount = 4 /\ dot
             THEN Call(CertainExtensionAndWord,
                       sanitizeWildCard(wildcard, CertainExtensionAndWord, extension))
             ELSE IF asterixCount > 4 /\ ~dot
             THEN Call(MultipleWords, sanitizeWildCard(wildcard, MultipleWords, Undefined))
             ELSE IF asterixCount > 4 /\ dot
             THEN Call(CertainExtensionAndMultipleWords,
                       sanitizeWildCard(wildcard, CertainExtensionAndMultipleWords, Undefined))
             ELSE Throw
        ELSE IF CharAt(wildcard, 0) = "."
        THEN Call(CertainExtension, wildcard)
        ELSE Call(NoCall, Undefined)

\* ------------------------------------------------------------------------
\* State
\* ------------------------------------------------------------------------

VARIABLES
    request,     \* the arguments every call of fileDeleter is made with
    files0,      \* the regular files that existed before the first call
    files,       \* the paths of the regular files that exist
    dirs,        \* the paths of the directories that exist
    locked,      \* regular files whose removal fails
    unreadable,  \* directories whose listing fails
    lsq,         \* `ls` child processes in flight (ls, lines 72-83)
    unlinks,     \* fs.unlink operations in flight (deleteFile, lines 63-65)
    task,        \* the ls callback the event loop is running, entry by entry
    calls,       \* number of calls of fileDeleter the caller makes
    run,         \* number of calls of fileDeleter made so far
    cbCalled,    \* the runs whose completion callback has been invoked
    errs,        \* the errors thrown so far
    halted,      \* the process has died of an uncaught exception
    issued,      \* history: every listing ever issued
    unlinked,    \* history: every fs.unlink ever issued
    removed,     \* history: every fs.unlink that removed its file
    visits       \* history: how often each listing was issued and each
                 \* regular file tested against its walk's predicate

vars == <<request, files0, files, dirs, locked, unreadable, lsq, unlinks, task, calls,
          run, cbCalled, errs, halted, issued, unlinked, removed, visits>>

NoTask == [run |-> 0, pat |-> 0, fn |-> NoCall, wildCard |-> <<>>,
           dir |-> <<>>, rest |-> <<>>]

\* an entry of the history of visits: a listing of path ("ls") or a test of
\* path against the predicate ("test") by the walk of pattern p of run r
Visit(kind, r, p, path) == [kind |-> kind, run |-> r, pat |-> p, path |-> path]

\* the history b with one more visit for every element of S
Visited(b, S) ==
    [v \in DOMAIN b \cup S |->
        (IF v \in DOMAIN b THEN b[v] ELSE 0) + (IF v \in S THEN 1 ELSE 0)]

\* a string argument, or a number passed in its place
Str(s) == [type |-> "string", val |-> s]
Num    == [type |-> "number", val |-> <<>>]

\* typeof
TypeOf(v) == v.type

\* ------------------------------------------------------------------------
\* Validation (lines 23-41)
\* ------------------------------------------------------------------------

NoError == "none"
EmptyIncluded  == "includedFileNames option must not be an empty array"
PathsNotString == "starting and stopping paths must both be strings."
EmptyExcluded  == "excludedFileNames cannot be empty if it is an option"
TypeError      == "TypeError: Cannot read properties of undefined"
SameWildcards  == "Cannot have two of the same wildcards."
wildCardError  == "Invalid wildcard. See documentation."
LsError        == "ls: cannot open directory"
StatError      == "ENOENT: no such file or directory, stat"

\* handleFileRemovalArgErrors: the first error it throws, or NoError.
\* fileTypes.keys are the own properties the caller's object has.
handleFileRemovalArgErrors(fileRemovalOptions) ==
    LET fileTypes == fileRemovalOptions.fileTypes
    IN  IF Len(fileTypes.includedFileNames) = 0 THEN EmptyIncluded
        ELSE IF TypeOf(fileRemovalOptions.startingPath) = "number" THEN PathsNotString
        ELSE IF TypeOf(fileRemovalOptions.stoppingPath) = "number" THEN PathsNotString
        ELSE IF "ignoredFileNames" \in fileTypes.keys
        THEN IF "excludedFileNames" \notin fileTypes.keys THEN TypeError
             ELSE IF Len(fileTypes.excludedFileNames) = 0 THEN EmptyExcluded
             ELSE NoError
        ELSE NoError

\* ------------------------------------------------------------------------
\* fileDeleter (lines 257-281)
\* ------------------------------------------------------------------------

\* the `ls` child process that fn(targetPath, wildCard) spawns through
\* managePath, generateDirectory and ls (lines 72-117)
LsOp(r, p, fn, wildCard, targetPath) ==
    [run |-> r, pat |-> p, fn |-> fn, wildCard |-> wildCard, dir |-> targetPath,
     done |-> FALSE, failed |-> FALSE, stdout |-> <<>>]

\* paths.find((path) => path === wildcard) (line 272)
Find(paths, wildcard) ==
    IF \E i \in 1..Len(paths) : paths[i] = wildcard THEN wildcard ELSE Undefined

\* a forEach that goes on with the later wildcards after an invalid one
RECURSIVE forEachWildcardGoesOn(_, _, _, _, _)
forEachWildcardGoesOn(r, startingPath, includedFileNames, i, paths) ==
    IF i > Len(includedFileNames) THEN [ops |-> {}, error |-> NoError]
    ELSE LET wildcard == includedFileNames[i]
             f        == filterIncludedFilePaths(Slice1(wildcard))
             rest     == forEachWildcardGoesOn(r, startingPath, includedFileNames,
                                               i + 1, Append(paths, wildcard))
         IN  IF Truthy(Find(paths, wildcard))
             THEN [ops |-> {}, error |-> SameWildcards]
             ELSE IF f.threw
             THEN [ops |-> rest.ops, error |-> wildCardError]
             ELSE [ops   |-> rest.ops \cup
                             (IF StartsWalk(f.fn)
                              THEN {LsOp(r, i, f.fn, f.wildCard, startingPath)}
                              ELSE {}),
                   error |-> rest.error]

\* the forEach of lines 271-278 from the i-th wildcard on: the listings it
\* spawns and the error that ends it
RECURSIVE forEachWildcard(_, _, _, _, _)
forEachWildcard(r, startingPath, includedFileNames, i, paths) ==
    IF i > Len(includedFileNames) THEN [ops |-> {}, error |-> NoError]
    ELSE LET wildcard == includedFileNames[i]
             f        == filterIncludedFilePaths(Slice1(wildcard))
             rest     == forEachWildcard(r, startingPath, includedFileNames, i + 1,
                                         Append(paths, wildcard))
         IN  IF Truthy(Find(paths, wildcard))
             THEN [ops |-> {}, error |-> SameWildcards]
             ELSE IF f.threw
             THEN [ops |-> {}, error |-> wildCardError]
             ELSE [ops   |-> rest.ops \cup
                             (IF StartsWalk(f.fn)
                              THEN {LsOp(r, i, f.fn, f.wildCard, startingPath)}
                              ELSE {}),
                   error |-> rest.error]

\* a call that walks nothing when stoppingPath is startingPath itself
fileDeleterResultStopsAtOnce(r, req) ==
    LET invalid == handleFileRemovalArgErrors(req)
        each    == forEachWildcard(r, req.startingPath.val,
                                   req.fileTypes.includedFileNames, 1, <<>>)
    IN  IF invalid # NoError
        THEN [ops |-> {}, error |-> invalid]
        ELSE IF req.stoppingPath = req.startingPath
        THEN [ops |-> {}, error |-> NoError]
        ELSE each

\* one call of fileDeleter, from its first line to its return or throw
fileDeleterResult(r, req) ==
    LET invalid == handleFileRemovalArgErrors(req)
        each    == forEachWildcard(r, req.startingPath.val,
                                   req.fileTypes.includedFileNames, 1, <<>>)
    IN  IF invalid # NoError
        THEN [ops |-> {}, error |-> invalid]
        ELSE each

\* The call.  A later call is made once the one before has signalled
\* completion.  When the call throws, the caller either catches the error
\* (the event loop goes on) or does not (the process dies).
FileDeleter ==
    /\ ~halted
    /\ task = NoTask
    /\ run < calls
    /\ run = 0 \/ run \in cbCalled
    /\ LET r   == run + 1
           res == fileDeleterResult(r, request)
       IN  /\ run' = r
           /\ lsq' = lsq \cup res.ops
           /\ issued' = issued \cup {[run |-> o.run, pat |-> o.pat, dir |-> o.dir] : o \in res.ops}
           /\ visits' = Visited(visits, {Visit("ls", o.run, o.pat, o.dir) : o \in res.ops})
           /\ IF res.error = NoError
              THEN /\ cbCalled' = cbCalled \cup {r}
                   /\ UNCHANGED <<errs, halted>>
              ELSE /\ errs' = errs \cup {[run |-> r, error |-> res.error, async |-> FALSE]}
                   /\ halted' \in BOOLEAN
                   /\ UNCHANGED cbCalled
    /\ UNCHANGED <<request, files0, files, dirs, locked, unreadable, unlinks, task,
                   calls, unlinked, removed>>

\* ------------------------------------------------------------------------
\* The collaborators: the `ls` child process and fs.unlink
\* ------------------------------------------------------------------------

\* the names in targetPath, in the order `ls` prints them
RECURSIVE Names(_, _)
Names(targetPath, i) ==
    IF i > Len(NameOrder) THEN <<>>
    ELSE (IF Join(targetPath, NameOrder[i]) \in files \cup dirs
          THEN <<NameOrder[i]>> ELSE <<>>) \o Names(targetPath, i + 1)

\* what `ls` writes: every name followed by a line break
RECURSIVE Stdout(_)
Stdout(names) ==
    IF names = <<>> THEN <<>>
    ELSE Head(names) \o <<"\n">> \o Stdout(Tail(names))

\* The child process of an ls reads its directory and exits.  (Once the
\* process has died no callback runs, so its children are left out.)
LsExec(op) ==
    /\ ~halted
    /\ ~op.done
    /\ lsq' = (lsq \ {op}) \cup
              {IF op.dir \in unreadable
               THEN [op EXCEPT !.done = TRUE, !.failed = TRUE]
               ELSE [op EXCEPT !.done = TRUE, !.stdout = Stdout(Names(op.dir, 1))]}
    /\ UNCHANGED <<request, files0, files, dirs, locked, unreadable, unlinks, task,
                   calls, run, cbCalled, errs, halted, issued, unlinked, removed, visits>>

\* whether the removal of path succeeds
CanUnlink(path) == path \in files /\ path \notin locked

\* fs.unlink whose callback rethrows the failure of the removal
UnlinkExecThrows(u) ==
    /\ unlinks' = unlinks \ {u}
    /\ IF CanUnlink(u.path)
       THEN /\ files' = files \ {u.path}
            /\ removed' = removed \cup {u}
            /\ UNCHANGED <<errs, halted>>
       ELSE /\ errs' = errs \cup {[run |-> u.run, error |-> "EPERM: unlink", async |-> TRUE]}
            /\ halted' = TRUE
            /\ UNCHANGED <<files, removed>>
    /\ UNCHANGED <<request, files0, dirs, locked, unreadable, lsq, task, calls, run,
                   cbCalled, issued, unlinked, visits>>

\* fs.unlink runs; its callback ignores the outcome (line 64).  A removal
\* already handed to the thread pool may still run after the process died.
UnlinkExec(u) ==
    /\ unlinks' = unlinks \ {u}
    /\ IF CanUnlink(u.path)
       THEN /\ files' = files \ {u.path}
            /\ removed' = removed \cup {u}
       ELSE UNCHANGED <<files, removed>>
    /\ UNCHANGED <<request, files0, dirs, locked, unreadable, lsq, task, calls, run,
                   cbCalled, errs, halted, issued, unlinked, visits>>

\* ------------------------------------------------------------------------
\* The walk (lines 72-117)
\* ------------------------------------------------------------------------

\* a directory walk that drops the last entry of the listing as well
generateDirectoryPopTwice(stdout) ==
    LET dir == Split(stdout, "\n") IN DropLast(dir, 2)

\* generateDirectory (lines 94-97): stdout.split("\n") without its last element
generateDirectory(stdout) ==
    LET dir == Split(stdout, "\n") IN DropLast(dir, 1)

\* fs.statSync(path) throws when nothing is at path
StatThrows(path) == path \notin files \cup dirs

\* a file-type check that takes a directory for a regular file
isFileOrDirectory(path) == path \in files \cup dirs

\* isFile (line 56)
isFile(path) == path \in files

\* an uncaught exception thrown by a callback ends the process
Uncaught(r, error) ==
    /\ errs' = errs \cup {[run |-> r, error |-> error, async |-> TRUE]}
    /\ halted' = TRUE
    /\ task' = NoTask

\* The callback of ls (lines 75-81, 94-97): throw on failure, else start the
\* forEach over the entries.
LsCallback(op) ==
    /\ ~halted
    /\ task = NoTask
    /\ op.done
    /\ lsq' = lsq \ {op}
    /\ IF op.failed
       THEN Uncaught(op.run, LsError)
       ELSE /\ task' = IF generateDirectory(op.stdout) = <<>> THEN NoTask
                       ELSE [run |-> op.run, pat |-> op.pat, fn |-> op.fn,
                             wildCard |-> op.wildCard, dir |-> op.dir,
                             rest |-> generateDirectory(op.stdout)]
            /\ UNCHANGED <<errs, halted>>
    /\ UNCHANGED <<request, files0, files, dirs, locked, unreadable, unlinks, calls,
                   run, cbCalled, issued, unlinked, removed, visits>>

\* the task once the entry at its head is dealt with
Advance == IF Len(task.rest) = 1 THEN NoTask ELSE [task EXCEPT !.rest = Tail(@)]

\* the path managePath builds for the entry at the head of the task (line 106)
absolutePathFromTargetDirectory == Join(task.dir, Head(task.rest))

\* the fs.unlink the running task issues for path
UnlinkOp(path) == [run |-> task.run, pat |-> task.pat, path |-> path]

\* The callback managePath hands to generateDirectory (lines 105-116), for
\* the next entry.  Nothing is at the path any more: fs.statSync throws.
ManagePathGone ==
    /\ ~halted
    /\ task # NoTask
    /\ StatThrows(absolutePathFromTargetDirectory)
    /\ Uncaught(task.run, StatError)
    /\ UNCHANGED <<request, files0, files, dirs, locked, unreadable, lsq, unlinks, calls,
                   run, cbCalled, issued, unlinked, removed, visits>>

\* A regular file the predicate accepts: deleteFile (lines 108-112).
ManagePathDelete ==
    /\ ~halted
    /\ task # NoTask
    /\ ~StatThrows(absolutePathFromTargetDirectory)
    /\ isFile(absolutePathFromTargetDirectory)
    /\ requirements(task.fn, absolutePathFromTargetDirectory, task.wildCard)
    /\ unlinks' = unlinks \cup {UnlinkOp(absolutePathFromTargetDirectory)}
    /\ unlinked' = unlinked \cup {UnlinkOp(absolutePathFromTargetDirectory)}
    /\ task' = Advance
    /\ visits' = Visited(visits, {Visit("test", task.run, task.pat,
                                          absolutePathFromTargetDirectory)})
    /\ UNCHANGED <<request, files0, files, dirs, locked, unreadable, lsq, calls, run,
                   cbCalled, errs, halted, issued, removed>>

\* A regular file the predicate rejects: isFile is evaluated a second time
\* (line 113) and the entry is left alone.
ManagePathSkip ==
    /\ ~halted
    /\ task # NoTask
    /\ ~StatThrows(absolutePathFromTargetDirectory)
    /\ isFile(absolutePathFromTargetDirectory)
    /\ ~requirements(task.fn, absolutePathFromTargetDirectory, task.wildCard)
    /\ task' = Advance
    /\ visits' = Visited(visits, {Visit("test", task.run, task.pat,
                                          absolutePathFromTargetDirectory)})
    /\ UNCHANGED <<request, files0, files, dirs, locked, unreadable, lsq, unlinks, calls,
                   run, cbCalled, errs, halted, issued, unlinked, removed>>

\* A regular file the predicate rejects, and a removal in flight for the
\* same path runs between the two evaluations of isFile: the second
\* fs.statSync throws.
ManagePathSkipRace ==
    /\ ~halted
    /\ task # NoTask
    /\ ~StatThrows(absolutePathFromTargetDirectory)
    /\ isFile(absolutePathFromTargetDirectory)
    /\ ~requirements(task.fn, absolutePathFromTargetDirectory, task.wildCard)
    /\ CanUnlink(absolutePathFromTargetDirectory)
    /\ \E v \in unlinks :
          /\ v.path = absolutePathFromTargetDirectory
          /\ unlinks' = unlinks \ {v}
          /\ files' = files \ {v.path}
          /\ removed' = removed \cup {v}
    /\ Uncaught(task.run, StatError)
    /\ visits' = Visited(visits, {Visit("test", task.run, task.pat,
                                          absolutePathFromTargetDirectory)})
    /\ UNCHANGED <<request, files0, dirs, locked, unreadable, lsq, calls, run, cbCalled,
                   issued, unlinked>>

\* A directory: the caller lists it (lines 113-115).
ManagePathRecurse ==
    /\ ~halted
    /\ task # NoTask
    /\ ~StatThrows(absolutePathFromTargetDirectory)
    /\ ~isFile(absolutePathFromTargetDirectory)
    /\ LET sub == LsOp(task.run, task.pat, caller(task.fn), task.wildCard,
                       absolutePathFromTargetDirectory)
       IN  /\ lsq' = lsq \cup {sub}
           /\ issued' = issued \cup {[run |-> sub.run, pat |-> sub.pat, dir |-> sub.dir]}
           /\ visits' = Visited(visits, {Visit("ls", sub.run, sub.pat, sub.dir)})
    /\ task' = Advance
    /\ UNCHANGED <<request, files0, files, dirs, locked, unreadable, unlinks, calls, run,
                   cbCalled, errs, halted, unlinked, removed>>

ManagePathEntry ==
    \/ ManagePathGone
    \/ ManagePathDelete
    \/ ManagePathSkip
    \/ ManagePathSkipRace
    \/ ManagePathRecurse

\* ------------------------------------------------------------------------
\* Requests
\* ------------------------------------------------------------------------

\* a wildcard token in its brackets
Br(w) == <<"[">> \o w \o <<"]">>

TokExt          == Br(<<".", "j">>)
TokWordA        == Br(<<"*", "*", "a", "*", "*">>)
TokWordD        == Br(<<"*", "*", "d", "*", "*">>)
TokWordT        == Br(<<"*", "*", "t", "*", "*">>)
TokWordExtA     == Br(<<"*", "*", "a", "*", "*", ".", "j">>)
TokWordExtB     == Br(<<"*", "*", "b", "*", "*", ".", "j">>)
TokWords        == Br(<<"*", "*", "a", "*", "*", "b", "*", "*">>)
TokWordsExt     == Br(<<"*", "*", "a", "*", "*", "b", "*", "*", ".", "j">>)
TokOdd          == Br(<<"*", "*", "a", "*">>)
TokTwo          == Br(<<"*", "a", "*">>)
TokPlain        == Br(<<"b">>)

\* the tokens the requests of several patterns are made of
Tokens ==
    {TokExt, TokWordA, TokWordD, TokWordT, TokWordExtA, TokWordExtB, TokWords,
     TokWordsExt, TokOdd, TokTwo, TokPlain}

StoppingPaths == {Str(<<".", "/">>), Str(<<"t">>)}

Request(start, stop, included, keys, excluded) ==
    [startingPath |-> start, stoppingPath |-> stop,
     fileTypes |-> [includedFileNames |-> included, keys |-> keys,
                    excludedFileNames |-> excluded]]

PlainRequest(included) == Request(Str(Root), Str(<<".", "/">>), included, {}, <<>>)

\* requests of one token
SingleRequests == { PlainRequest(<<a>>) : a \in Tokens }

\* requests of two tokens
PairRequests == { PlainRequest(<<a, b>>) : a \in Tokens, b \in Tokens }

\* requests that are repeated
RepeatRequests ==
    { PlainRequest(inc) : inc \in {<<TokExt>>, <<TokWordA>>, <<TokWordExtA>>} }

\* the own properties of fileTypes beside includedFileNames, with the value
\* of excludedFileNames (the empty list stands for it when it is absent)
Options ==
    { [keys |-> {}, excluded |-> <<>>],
      [keys |-> {"excludedFileNames"}, excluded |-> <<>>],
      [keys |-> {"excludedFileNames"}, excluded |-> <<TokWordA>>],
      [keys |-> {"ignoredFileNames"}, excluded |-> <<>>],
      [keys |-> {"excludedFileNames", "ignoredFileNames"}, excluded |-> <<>>],
      [keys |-> {"excludedFileNames", "ignoredFileNames"}, excluded |-> <<TokWordA>>] }

\* requests that exercise handleFileRemovalArgErrors
OddRequests ==
    { Request(start, stop, inc, o.keys, o.excluded) :
        start \in {Str(Root), Num},
        stop \in StoppingPaths \cup {Num},
        inc \in {<<>>, <<TokExt>>},
        o \in Options }

\* requests whose stoppingPath names startingPath itself or a directory
\* beneath it
StopRequests ==
    { Request(Str(Root), stop, <<TokExt>>, {}, <<>>) : stop \in {Str(Root), Str(Dir1)} }

\* the trees that several walks cross at a time
SmallUniverse ==
    { n \in Universe :
        PathOf(n) \in {Join(Root, <<"a", ".", "j">>), Join(Root, <<"b">>), Dir1,
                       Join(Dir1, <<"b", "a", ".", "j">>)} }

SmallTrees == {T \in Trees : T \subseteq SmallUniverse}

\* the tree the argument checks are made over
OneTree == {n \in Universe : n.dir = Root}

\* ------------------------------------------------------------------------
\* Specification
\* ------------------------------------------------------------------------

\* the characters of the enumerated tokens
Alphabet == {"*", ".", "j"}

\* every unbracketed text of at most n characters
Texts(n) == UNION {[1..k -> Alphabet] : k \in 0..n}

\* the texts whose call alone is made
Wildcards == Texts(MaxTokenLen)

\* requests of one enumerated token
ShortRequests == { PlainRequest(<<Br(w)>>) : w \in Texts(MaxWalkTokenLen) }

\* the requests made where a removal or a listing fails
FaultRequests == { PlainRequest(inc) : inc \in {<<TokExt>>, <<TokExt, TokWordA>>} }

InitRest ==
    /\ lsq = {}
    /\ unlinks = {}
    /\ task = NoTask
    /\ run = 0
    /\ cbCalled = {}
    /\ errs = {}
    /\ halted = FALSE
    /\ issued = {}
    /\ unlinked = {}
    /\ removed = {}
    /\ visits = <<>>

\* a scenario: the request r, the tree T, the number n of calls, the files l
\* whose removal fails and the directories u whose listing fails
Scenario(r, T, n, l, u) ==
    /\ request = r
    /\ files0 = FilesOf(T)
    /\ files = FilesOf(T)
    /\ dirs = DirsOf(T)
    /\ calls = n
    /\ locked = l
    /\ unreadable = u
    /\ InitRest

Init ==
    \/ \E r \in SingleRequests \cup ShortRequests, T \in Trees :
          Scenario(r, T, 1, {}, {})
    \/ \E r \in PairRequests, T \in SmallTrees :
          Scenario(r, T, 1, {}, {})
    \/ \E r \in RepeatRequests, T \in SmallTrees, n \in 2..MaxRuns :
          Scenario(r, T, n, {}, {})
    \/ \E r \in OddRequests :
          Scenario(r, OneTree, 1, {}, {})
    \/ \E r \in StopRequests, T \in Trees :
          Scenario(r, T, 1, {}, {})
    \/ \E r \in FaultRequests, T \in SmallTrees :
          \E l \in {{}} \cup {{f} : f \in FilesOf(T)},
             u \in {{}} \cup {{d} : d \in DirsOf(T)} :
                Scenario(r, T, 1, l, u)

Next ==
    \/ FileDeleter
    \/ \E op \in lsq : LsExec(op)
    \/ \E u \in unlinks : UnlinkExec(u)
    \/ \E op \in lsq : LsCallback(op)
    \/ ManagePathEntry

Spec == Init /\ [][Next]_vars

\* ------------------------------------------------------------------------
\* The grammar alone: one call of fileDeleter on every short token
\* ------------------------------------------------------------------------

InitParse ==
    \E w \in Wildcards : Scenario(PlainRequest(<<Br(w)>>), OneTree, 1, {}, {})

NextParse == FileDeleter

SpecParse == InitParse /\ [][NextParse]_vars

\* ------------------------------------------------------------------------
\* Properties
\* ------------------------------------------------------------------------

Included == request.fileTypes.includedFileNames

\* every call is made and nothing of any run is pending
Quiescent == run = calls /\ lsq = {} /\ unlinks = {} /\ task = NoTask

RemovedPaths == {u.path : u \in removed}

\* the unbracketed text of the request's first token
Text == SubSeq(Included[1], 2, Len(Included[1]) - 1)

\* one call, which returned and signalled completion, of a request of the
\* single token whose unbracketed text is w, where every listing succeeds
SingleRun(w) ==
    /\ Included = <<Br(w)>>
    /\ calls = 1
    /\ cbCalled = {1}
    /\ unreadable = {}

\* C1: when the completion callback of a run has been invoked, no listing
\* and no removal of that run is pending or still to be issued.
C1_CallbackAfterWalks ==
    \A r \in cbCalled :
        /\ \A op \in lsq : op.run # r
        /\ \A u \in unlinks : u.run # r
        /\ task.run # r

HasDuplicate(inc) == \E i, j \in 1..Len(inc) : i # j /\ inc[i] = inc[j]

\* C2: a request with two identical tokens fails with an error, and no
\* listing is issued and no file removed.
C2_DuplicateTouchesNothing ==
    (run >= 1 /\ HasDuplicate(Included)) =>
        /\ \E e \in errs : e.run = 1 /\ ~e.async
        /\ issued = {}
        /\ unlinked = {}
        /\ removed = {}

\* the text is an extension pattern: no asterisk, a leading dot
IsExtension(w) == Len(w) > 0 /\ w[1] = "." /\ \A i \in 1..Len(w) : w[i] # "*"

\* C3: after a run of the single pattern [.ext] has drained, the removed
\* paths are exactly the regular files, at any depth, whose path ends with
\* .ext (and whose removal can succeed); every other file is still there and
\* no directory was handed to fs.unlink.
C3_ExtensionRun ==
    (Len(Included) = 1 /\ IsExtension(Text) /\ SingleRun(Text) /\ Quiescent) =>
        LET Matching == {f \in files0 : EndsWith(f, Text)} \ locked
        IN  /\ RemovedPaths = Matching
            /\ files = files0 \ Matching
            /\ {u.path : u \in unlinked} \subseteq files0
            /\ ~halted

C3_Witness ==
    /\ SingleRun(<<".", "j">>)
    /\ Quiescent
    /\ Join(Dir2, <<"a", ".", "j">>) \in RemovedPaths
    /\ Join(Root, <<"a", ".", "j">>) \in RemovedPaths
    /\ Join(Root, <<"a", "j">>) \in files
    /\ Join(Dir1, <<"b">>) \in files
    /\ Dir1 \in dirs

\* the text is **word** with a word free of asterisks and dots
IsSingleWord(w) ==
    /\ Len(w) >= 4
    /\ SubSeq(w, 1, 2) = <<"*", "*">>
    /\ SubSeq(w, Len(w) - 1, Len(w)) = <<"*", "*">>
    /\ \A i \in 3..(Len(w) - 2) : w[i] \notin {"*", "."}

WordOf(w) == SubSeq(w, 3, Len(w) - 2)

\* C4: after a run of the single pattern [**w**] has drained, a regular
\* file is removed if and only if its joined path, startingPath and
\* ancestor directories included, contains w.
C4_WordRun ==
    (Len(Included) = 1 /\ IsSingleWord(Text) /\ SingleRun(Text) /\ Quiescent) =>
        LET Matching == {f \in files0 : Includes(f, WordOf(Text))} \ locked
        IN  /\ RemovedPaths = Matching
            /\ files = files0 \ Matching
            /\ ~halted

\* a file whose own name lacks the word is removed for its directory's name
C4_Witness ==
    /\ SingleRun(<<"*", "*", "d", "*", "*">>)
    /\ Quiescent
    /\ Join(Dir1, <<"b">>) \in RemovedPaths
    /\ Join(Root, <<"b">>) \in files

\* the text is **word**.ext, word and ext free of asterisks and dots
IsWordAndExtension(w) ==
    \E k \in 1..(Len(w) - 1) :
        /\ w[k] = "."
        /\ IsSingleWord(SubSeq(w, 1, k - 1))
        /\ \A i \in (k + 1)..Len(w) : w[i] \notin {"*", "."}

DotOf(w) == CHOOSE k \in 1..Len(w) : w[k] = "."

\* the regular files directly inside startingPath
DirectFiles == {PathOf(n) : n \in {m \in Universe : m.dir = Root /\ m.isFile}}

\* C5: after a run of the single pattern [**w**.ext] has drained, a regular
\* file directly inside startingPath is removed if and only if its path
\* contains w and ends with .ext, the dot included.
C5_WordAndExtensionRun ==
    (Len(Included) = 1 /\ IsWordAndExtension(Text) /\ SingleRun(Text) /\ Quiescent) =>
        LET word == WordOf(SubSeq(Text, 1, DotOf(Text) - 1))
            ext  == SubSeq(Text, DotOf(Text), Len(Text))
        IN  \A f \in (files0 \cap DirectFiles) \ locked :
                f \in RemovedPaths <=> (Includes(f, word) /\ EndsWith(f, ext))

\* C6: after a run of the single pattern [**a**b**] has drained, every
\* regular file whose path contains both words is removed.
C6_MultipleWordsRun ==
    (SingleRun(Slice1(TokWords)) /\ Quiescent) =>
        \A f \in files0 \ locked :
            (Includes(f, <<"a">>) /\ Includes(f, <<"b">>)) => f \in RemovedPaths

\* C7: a token whose unbracketed text holds an odd number of asterisks
\* raises the invalid-wildcard error and starts no walk.
C7_OddAsterisksRaise ==
    (run = 1 /\ Len(Included) = 1 /\ CountChar(Text, "*") % 2 = 1) =>
        /\ errs = {[run |-> 1, error |-> wildCardError, async |-> FALSE]}
        /\ cbCalled = {}
        /\ issued = {}
        /\ lsq = {}

C7_Witness ==
    /\ run = 1
    /\ Included = <<Br(<<"*", "*", "j", "*", "*", "*">>)>>
    /\ errs # {}

\* the five shapes of the grammar: an extension, or an even number of at
\* least four asterisks
FiveShapes(w) ==
    \/ IsExtension(w)
    \/ CountChar(w, "*") >= 4 /\ CountChar(w, "*") % 2 = 0

\* C8: a token of none of the five shapes raises the invalid-wildcard error.
C8_OtherShapesRaise ==
    (run = 1 /\ Len(Included) = 1 /\ ~FiveShapes(Text)) =>
        \E e \in errs : e.error = wildCardError

\* C9: of two successive runs of the same request, the second removes no
\* file and raises no error.
C9_SecondRunIdle ==
    /\ \A u \in removed : u.run = 1
    /\ \A e \in errs : e.run = 1

\* C10: a request whose excludedFileNames is the empty list fails with an
\* error before any listing or removal is issued.
C10_EmptyExcludedRejected ==
    (/\ run >= 1
     /\ "excludedFileNames" \in request.fileTypes.keys
     /\ request.fileTypes.excludedFileNames = <<>>) =>
        /\ \E e \in errs : e.run = 1 /\ ~e.async
        /\ issued = {}
        /\ unlinked = {}

\* the unbracketed text of a token
TextOf(tok) == SubSeq(tok, 2, Len(tok) - 1)

\* what the patterns [.ext] and [**w**] select
Accepts(tok, f) ==
    IF IsExtension(TextOf(tok)) THEN EndsWith(f, TextOf(tok))
    ELSE IsSingleWord(TextOf(tok)) /\ Includes(f, WordOf(TextOf(tok)))

\* the request is made of patterns [.ext] and [**w**] only
PlainPatterns ==
    \A i \in 1..Len(Included) :
        IsExtension(TextOf(Included[i])) \/ IsSingleWord(TextOf(Included[i]))

\* C11: a removal that fails is not fatal.  In a run over a tree with a file
\* whose removal fails, completion is signalled, the failed removal raises no
\* error (the only error a run of several patterns can die of is a file-type
\* check on a path another walk removed), and a run that drains has listed
\* every directory for every pattern, has handed the file to fs.unlink for
\* every pattern that selects it, and has removed every other selected file.
C11_FailedRemovalNotFatal ==
    (calls = 1 /\ run = 1 /\ locked # {} /\ unreadable = {} /\ PlainPatterns) =>
        /\ cbCalled = {1}
        /\ \A e \in errs : e.error = StatError
        /\ Len(Included) = 1 => ~halted
        /\ (Quiescent /\ ~halted) =>
              /\ \A i \in 1..Len(Included) : \A d \in dirs \cup {Root} :
                    [run |-> 1, pat |-> i, dir |-> d] \in issued
              /\ \A i \in 1..Len(Included) : \A f \in locked :
                    Accepts(Included[i], f) =>
                        [run |-> 1, pat |-> i, path |-> f] \in unlinked
              /\ RemovedPaths =
                    {f \in files0 : \E i \in 1..Len(Included) : Accepts(Included[i], f)}
                        \ locked
              /\ files = files0 \ RemovedPaths

\* two patterns select a file whose removal fails; both walks hand it to
\* fs.unlink and the file in the subdirectory is removed all the same
C11_Witness ==
    /\ Included = <<TokExt, TokWordA>>
    /\ locked = {Join(Root, <<"a", ".", "j">>)}
    /\ Quiescent
    /\ ~halted
    /\ cbCalled = {1}
    /\ Join(Root, <<"a", ".", "j">>) \in files
    /\ [run |-> 1, pat |-> 1, path |-> Join(Root, <<"a", ".", "j">>)] \in unlinked
    /\ [run |-> 1, pat |-> 2, path |-> Join(Root, <<"a", ".", "j">>)] \in unlinked
    /\ Join(Dir1, <<"b", "a", ".", "j">>) \in RemovedPaths

\* path lies strictly beneath the startingPath of the request
Beneath(path) ==
    LET start == request.startingPath.val \o <<"/">>
    IN  Len(path) > Len(start) /\ SubSeq(path, 1, Len(start)) = start

\* C12: every path handed to fs.unlink is a regular file strictly beneath
\* startingPath; no directory and no path outside the subtree is handed to
\* it, and only regular files are ever removed.
C12_OnlyFilesBeneathStart ==
    /\ \A u \in unlinked :
          /\ u.path \in files0
          /\ u.path \notin dirs
          /\ Beneath(u.path)
    /\ RemovedPaths \subseteq files0
    /\ files \cup RemovedPaths = files0

\* the directory d.j ends with the extension of [.j]: it is listed, the file
\* inside it is removed and the directory is not handed to fs.unlink
C12_Witness ==
    /\ Included = <<TokExt>>
    /\ Quiescent
    /\ Dir1 \in dirs
    /\ Visit("ls", 1, 1, Dir1) \in DOMAIN visits
    /\ Join(Dir1, <<"b", "a", ".", "j">>) \in RemovedPaths
    /\ \A u \in unlinked : u.path # Dir1

\* C13: at most one operation is outstanding at any time: an `ls` child
\* process that has not exited or an fs.unlink that has not run.
C13_OneOperationAtATime ==
    Cardinality({op \in lsq : ~op.done}) + Cardinality(unlinks) <= 1

\* C14: in a run of several patterns no file-type check is made on a path
\* that another pattern's walk has removed: the run raises no ENOENT.
C14_NoCheckOnRemovedPath ==
    (calls = 1 /\ Len(Included) > 1) => \A e \in errs : e.error # StatError

\* C15: every error of validation, of an invalid pattern or of a failed
\* listing is thrown by the call of fileDeleter itself, and never in a run
\* whose completion callback has been invoked.
C15_ErrorsBeforeCompletion ==
    \A e \in errs : e.error # StatError => (~e.async /\ e.run \notin cbCalled)

\* C16: a walk applies one test at every depth.  After a run of the single
\* pattern [**w**.ext] has drained, a regular file in a subdirectory is
\* removed if and only if its path passes the test made on the files directly
\* inside startingPath: it contains w and ends with ext.
C16_SamePredicateAtEveryDepth ==
    (Len(Included) = 1 /\ IsWordAndExtension(Text) /\ SingleRun(Text) /\ Quiescent) =>
        LET word == WordOf(SubSeq(Text, 1, DotOf(Text) - 1))
            ext  == SubSeq(Text, DotOf(Text) + 1, Len(Text))
        IN  \A f \in (files0 \ DirectFiles) \ locked :
                f \in RemovedPaths <=> (Includes(f, word) /\ EndsWith(f, ext))

\* s holds neither an asterisk nor a dot, and is not empty
Literal(s) == Len(s) > 0 /\ \A i \in 1..Len(s) : s[i] \notin {"*", "."}

\* the text is **w**tail.ext, where w ends at position a and the dot is at
\* position d: four asterisks and one dot
IsWordTailExtension(t, a, d) ==
    /\ 3 <= a /\ a + 3 < d /\ d < Len(t)
    /\ SubSeq(t, 1, 2) = <<"*", "*">>
    /\ Literal(SubSeq(t, 3, a))
    /\ SubSeq(t, a + 1, a + 2) = <<"*", "*">>
    /\ Literal(SubSeq(t, a + 3, d - 1))
    /\ t[d] = "."
    /\ Literal(SubSeq(t, d + 1, Len(t)))

\* C17: for a token [**w**tail.ext] the call starts a walk whose word
\* (wildCard.split(".")[0]) is exactly w and whose predicate holds only of
\* paths that contain w and end with .ext; the path x/<w><tail>.ext, which
\* does both, is selected.
C17_WordBetweenAsteriskPairs ==
    (run = 1 /\ Len(Included) = 1) =>
        \A a, d \in 1..Len(Text) :
            IsWordTailExtension(Text, a, d) =>
                LET w    == SubSeq(Text, 3, a)
                    tail == SubSeq(Text, a + 3, d - 1)
                    ext  == SubSeq(Text, d, Len(Text))
                    path == <<"x", "/">> \o w \o tail \o ext
                IN  /\ lsq # {}
                    /\ \A op \in lsq :
                          /\ At(Split(op.wildCard, "."), 0) = w
                          /\ \A p \in {path} \cup files0 :
                                requirements(op.fn, p, op.wildCard) =>
                                    (Includes(p, w) /\ EndsWith(p, ext))
                          /\ requirements(op.fn, path, op.wildCard)

\* the paths with a visit of the given kind by the walk of pattern p of run r
VisitedPaths(kind, r, p) ==
    {v.path : v \in {x \in DOMAIN visits : x.kind = kind /\ x.run = r /\ x.pat = p}}

\* C18: within the walk of one pattern no directory is listed twice and no
\* regular file is tested twice; and once the walk of a single pattern over a
\* tree whose listings succeed has drained, every directory from
\* startingPath down has been listed and every regular file tested against
\* the predicate.
C18_EachEntryOnce ==
    /\ \A v \in DOMAIN visits : visits[v] = 1
    /\ (/\ Len(Included) = 1 /\ calls = 1 /\ cbCalled = {1} /\ unreadable = {}
        /\ issued # {} /\ Quiescent) =>
            /\ VisitedPaths("ls", 1, 1) = dirs
            /\ VisitedPaths("test", 1, 1) = files0

\* a walk over three levels that selects some files and rejects others
C18_Witness ==
    /\ SingleRun(<<".", "j">>)
    /\ Quiescent
    /\ Dir2 \in dirs
    /\ Join(Dir2, <<"a", ".", "j">>) \in RemovedPaths
    /\ Visit("ls", 1, 1, Dir2) \in DOMAIN visits
    /\ Visit("test", 1, 1, Join(Dir2, <<"a", ".", "j">>)) \in DOMAIN visits
    /\ Join(Root, <<"b">>) \in files0
    /\ Join(Dir1, <<"b">>) \in files0
    /\ Cardinality(DOMAIN visits) = Cardinality(dirs) + Cardinality(files0)

\* the token is one that raises the invalid-wildcard error: it has asterisks,
\* and an odd number of them or fewer than four
Raises(tok) ==
    /\ CountChar(TextOf(tok), "*") > 0
    /\ CountChar(TextOf(tok), "*") % 2 = 1 \/ CountChar(TextOf(tok), "*") < 4

\* C19: once the invalid-wildcard error of a run is raised, by the token at
\* position i, that run issues no listing, no predicate test and no removal
\* for a pattern at position i or later.
C19_NothingAfterInvalidPattern ==
    \A e \in errs :
        e.error = wildCardError =>
            \E i \in 1..Len(Included) :
                /\ Raises(Included[i])
                /\ \A x \in issued : x.run = e.run => x.pat < i
                /\ \A x \in unlinked : x.run = e.run => x.pat < i
                /\ \A x \in DOMAIN visits : x.run = e.run => x.pat < i
                /\ \A x \in lsq : x.run = e.run => x.pat < i

\* the invalid token comes first, the caller catches its error and the file
\* the second pattern selects is still there when nothing is pending
C19_Witness ==
    /\ Included = <<TokOdd, TokExt>>
    /\ run = 1
    /\ errs = {[run |-> 1, error |-> wildCardError, async |-> FALSE]}
    /\ ~halted
    /\ Quiescent
    /\ Join(Root, <<"a", ".", "j">>) \in files

\* the strings stoppingPath is given
StopValues == StoppingPaths \cup {Str(Dir1)}

====
